---- MODULE Spec2Model ----
(***************************************************************************)
(* Wardley map graph of src/specify_cli/wardley_map.py: components held    *)
(* by reference in an ordered list, dependency lists held by reference in  *)
(* the components, name lookup, edge creation, projection to plain data    *)
(* and YAML load/save.                                                     *)
(*                                                                         *)
(* Python objects live in two heaps: objs (WardleyComponent instances) and *)
(* heap (list objects).  A reference is an index into its heap; 0 is None. *)
(* Python scalars are [tag, text] records so that a str and a float with   *)
(* the same spelling stay different values, as they do in Python and in    *)
(* YAML.                                                                   *)
(***************************************************************************)
EXTENDS Integers, Sequences, FiniteSets, TLC

VARIABLES
    objs,        \* heap of WardleyComponent objects
    heap,        \* heap of list objects (dependency lists)
    components,  \* WardleyMap.components: references into objs
    metadata,    \* WardleyMap.metadata: a dict, as a sequence of <<key, value>>
    file,        \* the document at path: a sequence of YAML events, <<>> if empty
    proj,        \* the last projection returned by to_dict, NoProj before
    last         \* the last call made on the library and its outcome

vars == <<objs, heap, components, metadata, file, proj, last>>

----------------------------------------------------------------------------
(* Bounds *)

MaxComponents == 2
MaxHeap == 4

----------------------------------------------------------------------------
(* Python values *)

None == 0

Str(s) == [tag |-> "str", text |-> s, items |-> <<>>]
Float(s) == [tag |-> "float", text |-> s, items |-> <<>>]
PyNone == [tag |-> "null", text |-> "", items |-> <<>>]
PyList(xs) == [tag |-> "seq", text |-> "", items |-> xs]
PyDict(kvs) == [tag |-> "map", text |-> "", items |-> kvs]

Names == {Str("CRM"), Str("Database")}
\* <<visibility, evolution>> of the components the caller builds
Positions == {<<Float("0.8"), Float("0.9")>>, <<Float("0.3"), Float("0.6")>>}

\* the dependency lists the caller builds components around
DepInputs == {<<>>} \cup {<<a>> : a \in Names} \cup {<<a, a>> : a \in Names}

\* a metadata dict: a str, a str spelt like a float, and a float
ExampleMetadata ==
    << <<Str("owner"), Str("team-x")>>, <<Str("version"), Str("0.8")>>,
       <<Str("scale"), Float("0.8")>> >>

MetadataInputs == {<<>>, ExampleMetadata}

Contains(xs, x) == \E i \in 1..Len(xs) : xs[i] = x
Count(xs, x) == Cardinality({i \in 1..Len(xs) : xs[i] = x})

----------------------------------------------------------------------------
(* WardleyComponent and WardleyMap *)

WardleyComponent(name, visibility, evolution, dependencies) ==
    [name |-> name, visibility |-> visibility, evolution |-> evolution,
     dependencies |-> dependencies]

\* The component as a value: its fields with the dependency list read out.
ComponentValue(o, h, ref) ==
    [name |-> o[ref].name, visibility |-> o[ref].visibility,
     evolution |-> o[ref].evolution, dependencies |-> h[o[ref].dependencies]]

add_component(comps, ref) == Append(comps, ref)

RECURSIVE first_match(_, _, _, _)
first_match(o, comps, name, i) ==
    IF i > Len(comps) THEN None
    ELSE IF o[comps[i]].name = name THEN comps[i]
    ELSE first_match(o, comps, name, i + 1)

\* get_component with the scan started one component late.
get_component_skip_first(o, comps, name) == first_match(o, comps, name, 2)

get_component(o, comps, name) == first_match(o, comps, name, 1)

\* link_components with only the source looked up before linking.
link_components_source_only(o, h, comps, source, target) ==
    LET src == get_component(o, comps, source)
    IN IF src = None
       THEN [res |-> "ValueError", heap |-> h]
       ELSE LET l == o[src].dependencies
            IN IF ~Contains(h[l], target)
               THEN [res |-> "ok", heap |-> [h EXCEPT ![l] = Append(h[l], target)]]
               ELSE [res |-> "ok", heap |-> h]

\* link_components appending whether or not target is already present.
link_components_always_append(o, h, comps, source, target) ==
    LET src == get_component(o, comps, source)
        tgt == get_component(o, comps, target)
    IN IF src = None \/ tgt = None
       THEN [res |-> "ValueError", heap |-> h]
       ELSE LET l == o[src].dependencies
            IN [res |-> "ok", heap |-> [h EXCEPT ![l] = Append(h[l], target)]]

\* link_components testing the source, not the target, for presence in the
\* dependencies.
link_components_tests_source(o, h, comps, source, target) ==
    LET src == get_component(o, comps, source)
        tgt == get_component(o, comps, target)
    IN IF src = None \/ tgt = None
       THEN [res |-> "ValueError", heap |-> h]
       ELSE LET l == o[src].dependencies
            IN IF ~Contains(h[l], source)
               THEN [res |-> "ok", heap |-> [h EXCEPT ![l] = Append(h[l], target)]]
               ELSE [res |-> "ok", heap |-> h]

\* link_components refusing an edge whose target already depends on source.
link_components_rejects_cycle(o, h, comps, source, target) ==
    LET src == get_component(o, comps, source)
        tgt == get_component(o, comps, target)
    IN IF src = None \/ tgt = None
       THEN [res |-> "ValueError", heap |-> h]
       ELSE IF Contains(h[o[tgt].dependencies], source)
       THEN [res |-> "ValueError", heap |-> h]
       ELSE LET l == o[src].dependencies
            IN IF ~Contains(h[l], target)
               THEN [res |-> "ok", heap |-> [h EXCEPT ![l] = Append(h[l], target)]]
               ELSE [res |-> "ok", heap |-> h]

link_components(o, h, comps, source, target) ==
    LET src == get_component(o, comps, source)
        tgt == get_component(o, comps, target)
    IN IF src = None \/ tgt = None
       THEN [res |-> "ValueError", heap |-> h]
       ELSE LET l == o[src].dependencies
            IN IF ~Contains(h[l], target)
               THEN [res |-> "ok", heap |-> [h EXCEPT ![l] = Append(h[l], target)]]
               ELSE [res |-> "ok", heap |-> h]

----------------------------------------------------------------------------
(* Projection to plain data *)

\* list(xs): a new list with the elements of xs.
list(xs) == [i \in 1..Len(xs) |-> xs[i]]

\* component_to_dict handing out the component's own list.
component_to_dict_shared(o, h, ref, newref) ==
    [dict |-> [name |-> o[ref].name, visibility |-> o[ref].visibility,
               evolution |-> o[ref].evolution, dependencies |-> o[ref].dependencies],
     list |-> list(h[o[ref].dependencies])]

\* WardleyComponent.to_dict: the dict of component ref, its dependencies a
\* new list object placed at newref.
component_to_dict(o, h, ref, newref) ==
    [dict |-> [name |-> o[ref].name, visibility |-> o[ref].visibility,
               evolution |-> o[ref].evolution, dependencies |-> newref],
     list |-> list(h[o[ref].dependencies])]

\* WardleyMap.to_dict: the projection and the heap with the new lists.
to_dict(o, h, comps, meta) ==
    LET n == Len(comps)
        part(i) == component_to_dict(o, h, comps[i], Len(h) + i)
    IN [proj |-> [taken |-> TRUE,
                  components |-> [i \in 1..n |-> part(i).dict],
                  metadata |-> list(meta)],
        heap |-> h \o [i \in 1..n |-> part(i).list]]

\* The projection as one Python value, lists read out of the heap, keys in
\* the order to_dict inserts them.
ProjData(p, h) ==
    LET comp(c) == PyDict(<< <<Str("name"), c.name>>,
                             <<Str("visibility"), c.visibility>>,
                             <<Str("evolution"), c.evolution>>,
                             <<Str("dependencies"), PyList(h[c.dependencies])>> >>)
    IN PyDict(<< <<Str("components"),
                   PyList([i \in 1..Len(p.components) |-> comp(p.components[i])])>>,
                 <<Str("metadata"), PyDict(p.metadata)>> >>)

----------------------------------------------------------------------------
(* YAML: a document is the sequence of events of its one node *)

Event(e, text, quoted) == [e |-> e, text |-> text, quoted |-> quoted]

FloatTexts == {"0.0", "0.3", "0.6", "0.8", "0.9"}
NullTexts == {"", "~", "null", "Null", "NULL"}

\* The implicit resolver: the tag a plain scalar is read with.
Resolve(text) ==
    IF text \in FloatTexts THEN "float"
    ELSE IF text \in NullTexts THEN "null"
    ELSE "str"

\* A str is written quoted when its plain form would be read as another type.
RepresentScalar(v) ==
    IF v.tag = "str" THEN Event("scalar", v.text, Resolve(v.text) # "str")
    ELSE IF v.tag = "float" THEN Event("scalar", v.text, FALSE)
    ELSE Event("scalar", "null", FALSE)

ConstructScalar(ev) ==
    IF ev.quoted \/ Resolve(ev.text) = "str" THEN Str(ev.text)
    ELSE IF Resolve(ev.text) = "float" THEN Float(ev.text)
    ELSE PyNone

RECURSIVE Emit(_), EmitItems(_, _), EmitPairs(_, _)
Emit(v) ==
    IF v.tag = "seq"
    THEN <<Event("seq_start", "", FALSE)>> \o EmitItems(v.items, 1)
             \o <<Event("seq_end", "", FALSE)>>
    ELSE IF v.tag = "map"
    THEN <<Event("map_start", "", FALSE)>> \o EmitPairs(v.items, 1)
             \o <<Event("map_end", "", FALSE)>>
    ELSE <<RepresentScalar(v)>>
EmitItems(xs, i) ==
    IF i > Len(xs) THEN <<>> ELSE Emit(xs[i]) \o EmitItems(xs, i + 1)
EmitPairs(kvs, i) ==
    IF i > Len(kvs) THEN <<>>
    ELSE Emit(kvs[i][1]) \o Emit(kvs[i][2]) \o EmitPairs(kvs, i + 1)

RECURSIVE ParseNode(_, _), ParseSeq(_, _, _), ParseMap(_, _, _)
ParseNode(ev, i) ==
    IF ev[i].e = "seq_start" THEN ParseSeq(ev, i + 1, <<>>)
    ELSE IF ev[i].e = "map_start" THEN ParseMap(ev, i + 1, <<>>)
    ELSE [val |-> ConstructScalar(ev[i]), next |-> i + 1]
ParseSeq(ev, i, acc) ==
    IF ev[i].e = "seq_end" THEN [val |-> PyList(acc), next |-> i + 1]
    ELSE LET x == ParseNode(ev, i)
         IN ParseSeq(ev, x.next, Append(acc, x.val))
ParseMap(ev, i, acc) ==
    IF ev[i].e = "map_end" THEN [val |-> PyDict(acc), next |-> i + 1]
    ELSE LET k == ParseNode(ev, i)
             v == ParseNode(ev, k.next)
         IN ParseMap(ev, v.next, Append(acc, <<k.val, v.val>>))

safe_dump(data) == Emit(data)
safe_load(doc) == IF doc = <<>> THEN PyNone ELSE ParseNode(doc, 1).val

----------------------------------------------------------------------------
(* Load and save *)

\* Python truth value, as `or` tests it.
Truthy(v) ==
    IF v.tag \in {"seq", "map"} THEN v.items # <<>>
    ELSE IF v.tag = "str" THEN v.text # ""
    ELSE IF v.tag = "float" THEN v.text # "0.0"
    ELSE FALSE

HasKey(d, k) == \E i \in 1..Len(d.items) : d.items[i][1] = k
\* d[k] for a key d has
Item(d, k) == d.items[CHOOSE i \in 1..Len(d.items) : d.items[i][1] = k][2]
\* d.get(k, default)
DictGet(d, k, default) == IF HasKey(d, k) THEN Item(d, k) ELSE default

\* load_components leaving out the entries without a name.
RECURSIVE load_components_skip_nameless(_, _, _)
load_components_skip_nameless(entries, i, acc) ==
    IF i > Len(entries) THEN [res |-> "ok", components |-> acc]
    ELSE LET c == entries[i]
         IN IF ~HasKey(c, Str("name"))
            THEN load_components_skip_nameless(entries, i + 1, acc)
            ELSE load_components_skip_nameless(entries, i + 1, Append(acc,
                     WardleyComponent(Item(c, Str("name")),
                                      DictGet(c, Str("visibility"), Float("0.0")),
                                      DictGet(c, Str("evolution"), Float("0.0")),
                                      DictGet(c, Str("dependencies"), PyList(<<>>)).items)))

\* load_components reading visibility as c["visibility"].
RECURSIVE load_components_visibility_required(_, _, _)
load_components_visibility_required(entries, i, acc) ==
    IF i > Len(entries) THEN [res |-> "ok", components |-> acc]
    ELSE LET c == entries[i]
         IN IF ~HasKey(c, Str("name")) \/ ~HasKey(c, Str("visibility"))
            THEN [res |-> "KeyError", components |-> <<>>]
            ELSE load_components_visibility_required(entries, i + 1, Append(acc,
                     WardleyComponent(Item(c, Str("name")),
                                      Item(c, Str("visibility")),
                                      DictGet(c, Str("evolution"), Float("0.0")),
                                      DictGet(c, Str("dependencies"), PyList(<<>>)).items)))

\* The list comprehension of load_map: the components of entries i.. in
\* order after acc, or KeyError at the first entry without a name.  A
\* component is held here with its dependency list as a value.
RECURSIVE load_components(_, _, _)
load_components(entries, i, acc) ==
    IF i > Len(entries) THEN [res |-> "ok", components |-> acc]
    ELSE LET c == entries[i]
         IN IF ~HasKey(c, Str("name")) THEN [res |-> "KeyError", components |-> <<>>]
            ELSE load_components(entries, i + 1, Append(acc,
                     WardleyComponent(Item(c, Str("name")),
                                      DictGet(c, Str("visibility"), Float("0.0")),
                                      DictGet(c, Str("evolution"), Float("0.0")),
                                      DictGet(c, Str("dependencies"), PyList(<<>>)).items)))

\* load_map building the WardleyMap without the document's metadata.
load_map_without_metadata(doc) ==
    LET loaded == safe_load(doc)
        data == IF Truthy(loaded) THEN loaded ELSE PyDict(<<>>)
        entries == DictGet(data, Str("components"), PyList(<<>>)).items
        comps == load_components(entries, 1, <<>>)
    IN IF data.tag # "map" THEN [res |-> "AttributeError", ret |-> <<>>]
       ELSE IF comps.res # "ok" THEN [res |-> comps.res, ret |-> <<>>]
       ELSE [res |-> "ok", ret |-> <<[components |-> comps.components, metadata |-> <<>>]>>]

\* load_map: ret is <<the WardleyMap>> when it returns and <<>> when it raises.
load_map(doc) ==
    LET loaded == safe_load(doc)
        data == IF Truthy(loaded) THEN loaded ELSE PyDict(<<>>)
        entries == DictGet(data, Str("components"), PyList(<<>>)).items
        comps == load_components(entries, 1, <<>>)
    IN IF data.tag # "map" THEN [res |-> "AttributeError", ret |-> <<>>]
       ELSE IF comps.res # "ok" THEN [res |-> comps.res, ret |-> <<>>]
       ELSE [res |-> "ok",
             ret |-> <<[components |-> comps.components,
                        metadata |-> DictGet(data, Str("metadata"), PyDict(<<>>)).items]>>]

\* save_map: the document written at path.
save_map(o, h, comps, meta) ==
    LET d == to_dict(o, h, comps, meta)
    IN safe_dump(ProjData(d.proj, d.heap))

\* The Map Graph as a value: its components in order with their fields and
\* dependency sequences, and its metadata.
GraphValue(o, h, comps, meta) ==
    [components |-> [i \in 1..Len(comps) |-> ComponentValue(o, h, comps[i])],
     metadata |-> meta]

----------------------------------------------------------------------------
(* Calls *)

Call(op, args, ref, res) == [op |-> op, args |-> args, ref |-> ref, res |-> res]
NoCall == Call("none", <<>>, None, "ok")
NoProj == [taken |-> FALSE, components |-> <<>>, metadata |-> <<>>]

\* A map built with WardleyMap(metadata=...): no component yet.
Init ==
    /\ objs = <<>>
    /\ heap = <<>>
    /\ components = <<>>
    /\ metadata = ExampleMetadata
    /\ file = <<>>
    /\ proj = NoProj
    /\ last = NoCall

\* The lists the caller has built components around.
CallerLists == {objs[r].dependencies : r \in 1..Len(objs)}

\* The caller builds a component around a new list with the elements of
\* some member of D and adds it.
AddNew(D) ==
    \E name \in Names, pos \in Positions, deps \in D :
        /\ Len(components) < MaxComponents
        /\ Len(heap) < MaxHeap
        /\ heap' = Append(heap, deps)
        /\ objs' = Append(objs, WardleyComponent(name, pos[1], pos[2], Len(heap) + 1))
        /\ components' = add_component(components, Len(objs) + 1)
        /\ last' = Call("add_component", <<>>, Len(objs) + 1, "ok")
        /\ UNCHANGED <<metadata, file, proj>>

\* The caller builds a component around a list it built an earlier component
\* around (one whose elements are a member of D) and adds it.
AddSharing(D) ==
    \E name \in Names, pos \in Positions, l \in CallerLists :
        /\ Len(components) < MaxComponents
        /\ heap[l] \in D
        /\ objs' = Append(objs, WardleyComponent(name, pos[1], pos[2], l))
        /\ components' = add_component(components, Len(objs) + 1)
        /\ last' = Call("add_component", <<>>, Len(objs) + 1, "ok")
        /\ UNCHANGED <<heap, metadata, file, proj>>

\* The caller adds a component object it has added before (one whose
\* dependencies are a member of D).
AddAgain(D) ==
    \E ref \in 1..Len(objs) :
        /\ Len(components) < MaxComponents
        /\ heap[objs[ref].dependencies] \in D
        /\ components' = add_component(components, ref)
        /\ last' = Call("add_component", <<>>, ref, "ok")
        /\ UNCHANGED <<objs, heap, metadata, file, proj>>

Link ==
    \E source \in Names, target \in Names :
        LET r == link_components(objs, heap, components, source, target)
        IN /\ heap' = r.heap
           /\ last' = Call("link_components", <<source, target>>, None, r.res)
           /\ UNCHANGED <<objs, components, metadata, file, proj>>

Get ==
    \E name \in Names :
        /\ last' = Call("get_component", <<name>>,
                        get_component(objs, components, name), "ok")
        /\ UNCHANGED <<objs, heap, components, metadata, file, proj>>

ToDict ==
    LET d == to_dict(objs, heap, components, metadata)
    IN /\ Len(heap) + Len(components) <= MaxHeap
       /\ proj' = d.proj
       /\ heap' = d.heap
       /\ last' = Call("to_dict", <<>>, None, "ok")
       /\ UNCHANGED <<objs, components, metadata, file>>

\* save_map(map_obj, path); the projection it builds is dropped on return.
Save ==
    /\ file' = save_map(objs, heap, components, metadata)
    /\ last' = Call("save_map", <<>>, None, "ok")
    /\ UNCHANGED <<objs, heap, components, metadata, proj>>

\* map_obj = load_map(path): on return the caller holds the loaded map and
\* nothing of the old one, on a raise it keeps what it had.
Load ==
    LET r == load_map(file)
    IN /\ last' = Call("load_map", <<>>, None, r.res)
       /\ IF r.ret = <<>>
          THEN UNCHANGED <<objs, heap, components, metadata, proj>>
          ELSE LET m == r.ret[1]
                   n == Len(m.components)
               IN /\ heap' = [i \in 1..n |-> m.components[i].dependencies]
                  /\ objs' = [i \in 1..n |->
                                [m.components[i] EXCEPT !.dependencies = i]]
                  /\ components' = [i \in 1..n |-> i]
                  /\ metadata' = m.metadata
                  /\ proj' = NoProj
       /\ UNCHANGED file

AnyDeps == Seq(Names)

\* The graph in memory: construction, lookup and linking.
Next ==
    \/ AddNew(DepInputs)
    \/ AddSharing(AnyDeps)
    \/ AddAgain(AnyDeps)
    \/ Link
    \/ Get

Spec == Init /\ [][Next]_vars

\* The graph and its projections; components are built around an empty
\* list or a list of one name.
NextProj ==
    \/ AddNew({<<>>, <<Str("Database")>>})
    \/ AddSharing(AnyDeps)
    \/ AddAgain(AnyDeps)
    \/ Link
    \/ ToDict

SpecProj == Init /\ [][NextProj]_vars

\* The graph and its document; components are built around an empty list
\* or a list with one name twice.
NextFile ==
    \/ AddNew({<<>>, <<Str("Database"), Str("Database")>>})
    \/ AddSharing(AnyDeps)
    \/ AddAgain(AnyDeps)
    \/ Link
    \/ Save
    \/ Load

SpecFile == Init /\ [][NextFile]_vars

\* Components are only ever added with an empty dependency sequence.
NextLink ==
    \/ AddNew({<<>>})
    \/ AddSharing({<<>>})
    \/ AddAgain({<<>>})
    \/ Link
    \/ Get

SpecLink == Init /\ [][NextLink]_vars

----------------------------------------------------------------------------
(* Documents written by hand *)

RECURSIVE SeqsUpTo(_, _)
SeqsUpTo(S, n) ==
    IF n = 0 THEN {<<>>}
    ELSE LET shorter == SeqsUpTo(S, n - 1)
         IN shorter \cup {Append(s, x) : s \in {t \in shorter : Len(t) = n - 1}, x \in S}

\* A key that is absent, or present with one of vals.
Opt(key, vals) == {<<>>} \cup {<< <<Str(key), v>> >> : v \in vals}

EntryInputs ==
    {PyDict(n \o v \o e \o d) :
        n \in Opt("name", Names),
        v \in Opt("visibility", {Float("0.8")}),
        e \in Opt("evolution", {Float("0.9")}),
        d \in Opt("dependencies", {PyList(<<Str("Database"), Str("CRM")>>)})}

DocInputs ==
    {PyDict(c \o m) :
        c \in Opt("components", {PyList(es) : es \in SeqsUpTo(EntryInputs, MaxComponents)}),
        m \in Opt("metadata", {PyDict(x) : x \in MetadataInputs})}

\* The empty document and the documents of DocInputs.
Documents == {<<>>} \cup {safe_dump(d) : d \in DocInputs}

InitLoad ==
    /\ objs = <<>>
    /\ heap = <<>>
    /\ components = <<>>
    /\ metadata = <<>>
    /\ file \in Documents
    /\ proj = NoProj
    /\ last = NoCall

NextLoad == Load

SpecLoad == InitLoad /\ [][NextLoad]_vars

----------------------------------------------------------------------------
(* Properties *)

get(name) == get_component(objs, components, name)
Deps(ref) == heap[objs[ref].dependencies]
\* the dependencies of the component get_component(name) returns
DepsOf(o, h, comps, name) == h[o[get_component(o, comps, name)].dependencies]
IsLink(call) == call.op = "link_components"
LinkedOk(call) == IsLink(call) /\ call.res = "ok"

\* C1: link_components(source, target) raises ValueError exactly when
\* get_component(source) or get_component(target) is None before the call,
\* and returns normally exactly when both resolve.
C1_LinkFailsIffMissing ==
    [][IsLink(last') =>
        LET missing == get(last'.args[1]) = None \/ get(last'.args[2]) = None
        IN /\ missing => last'.res = "ValueError"
           /\ ~missing => last'.res = "ok"]_vars

C1_Witness ==
    /\ IsLink(last)
    /\ last.res = "ValueError"
    /\ get(last.args[1]) # None
    /\ get(last.args[2]) = None

\* C2 as stated: after link_components(A, B) has succeeded, calling it again
\* succeeds and leaves exactly one occurrence of B in A's dependencies.
C2_ExactlyOneOccurrence ==
    LinkedOk(last) =>
        LET again == link_components(objs, heap, components, last.args[1], last.args[2])
        IN /\ again.res = "ok"
           /\ Count(again.heap[objs[get(last.args[1])].dependencies], last.args[2]) = 1

\* C2 amended: a successful link_components(A, B) followed by the same call
\* leaves the graph as the first call left it, and leaves exactly one
\* occurrence of B in A's dependencies when there was at most one before
\* the first call.
C2_RelinkIdempotent ==
    [][LinkedOk(last') =>
        LET a == get(last'.args[1])
            b == last'.args[2]
            again == link_components(objs', heap', components', last'.args[1], b)
        IN /\ again.res = "ok"
           /\ again.heap = heap'
           /\ Count(Deps(a), b) <= 1 => Count(again.heap[objs[a].dependencies], b) = 1]_vars

C2_Witness ==
    /\ LinkedOk(last)
    /\ last.args[1] # last.args[2]
    /\ Deps(get(last.args[1])) = <<last.args[1], last.args[2]>>

\* C4 as stated: after add_component(c), in any graph, get_component(c.name)
\* is a component equal to c in name, visibility, evolution and dependencies.
C4_AddThenGet ==
    last.op = "add_component" =>
        /\ get(objs[last.ref].name) # None
        /\ ComponentValue(objs, heap, get(objs[last.ref].name))
               = ComponentValue(objs, heap, last.ref)

\* The graph held no component named as the one just added.
NameWasNew ==
    \A i \in 1..(Len(components) - 1) : objs[components[i]].name # objs[last.ref].name

\* C4 amended: after add_component(c) on a graph that held no component
\* named c.name, get_component(c.name) is the component added, equal to c in
\* name, visibility, evolution and dependencies.
C4_AddThenGetNewName ==
    (last.op = "add_component" /\ NameWasNew) =>
        /\ get(objs[last.ref].name) = last.ref
        /\ components[Len(components)] = last.ref
        /\ ComponentValue(objs, heap, get(objs[last.ref].name))
               = ComponentValue(objs, heap, last.ref)

C4_Witness ==
    /\ last.op = "add_component"
    /\ Len(components) = 2
    /\ NameWasNew
    /\ get(objs[last.ref].name) = components[2]
    /\ Deps(last.ref) # <<>>

\* C7: once to_dict has returned a projection, no later add_component or
\* link_components changes what the projection holds.
C7_ProjectionIndependent ==
    [][(proj.taken /\ proj' = proj) => ProjData(proj, heap') = ProjData(proj, heap)]_vars

C7_Witness ==
    /\ proj.taken
    /\ LinkedOk(last)
    /\ Len(proj.components) = 2
    /\ \E i \in 1..2 : heap[proj.components[i].dependencies] # Deps(components[i])

\* C9: when every component was added with an empty dependency sequence,
\* every dependency names a component of the graph and no dependency
\* sequence holds a name twice.
C9_DependenciesResolve ==
    \A i \in 1..Len(components) :
        \A name \in Names :
            /\ Contains(Deps(components[i]), name) => get(name) # None
            /\ Count(Deps(components[i]), name) <= 1

C9_Witness ==
    /\ IsLink(last)
    /\ last.res = "ValueError"
    /\ Len(components) = 2
    /\ Deps(components[1]) = <<objs[components[1]].name>>

\* C10: link_components(source, target) leaves objs, components and
\* metadata as they were, changes no dependency sequence but that of the
\* first component named source, changes that one at most by appending
\* target, and changes nothing when it raises.
C10_LinkFrame ==
    [][IsLink(last') =>
        LET src == get(last'.args[1])
        IN /\ objs' = objs
           /\ components' = components
           /\ metadata' = metadata
           /\ last'.res # "ok" => heap' = heap
           /\ last'.res = "ok" =>
                /\ \/ heap'[objs[src].dependencies] = Deps(src)
                   \/ heap'[objs[src].dependencies] = Append(Deps(src), last'.args[2])
                /\ \A ref \in 1..Len(objs) :
                        ref # src => heap'[objs[ref].dependencies] = Deps(ref)]_vars

----------------------------------------------------------------------------
(* Properties of load and save *)

\* C3: load_map right after save_map returns a graph with the components of
\* the saved one in order, each with its name, visibility, evolution and
\* dependency sequence, and with its metadata.
C3_RoundTrip ==
    [][(last.op = "save_map" /\ last'.op = "load_map") =>
        /\ last'.res = "ok"
        /\ GraphValue(objs', heap', components', metadata')
               = GraphValue(objs, heap, components, metadata)]_vars

C3_Witness ==
    /\ last.op = "load_map"
    /\ last.res = "ok"
    /\ file = save_map(objs, heap, components, metadata)
    /\ Len(components) = 2
    /\ metadata = ExampleMetadata
    /\ Deps(components[1]) = <<Str("Database"), Str("Database"), Str("CRM")>>

\* The entries of the components list of a document (none when the key or
\* the document is absent).
Entries(doc) ==
    IF doc = <<>> THEN <<>>
    ELSE DictGet(safe_load(doc), Str("components"), PyList(<<>>)).items
NamelessAt(doc) == {i \in 1..Len(Entries(doc)) : ~HasKey(Entries(doc)[i], Str("name"))}

\* C5: load_map of a document with a component entry without a name, at any
\* position, raises KeyError and returns no map: the caller is left with
\* the graph it had.
C5_MissingNameAborts ==
    (last.op = "load_map" /\ NamelessAt(file) # {}) =>
        /\ last.res = "KeyError"
        /\ load_map(file).ret = <<>>
        /\ components = <<>>
        /\ objs = <<>>

C5_Witness ==
    /\ last.op = "load_map"
    /\ last.res = "KeyError"
    /\ NamelessAt(file) = {2}

\* C6: load_map of a document whose entries all have a name returns a map
\* with one component per entry in document order, each field the entry's
\* value when present and else 0.0 (visibility, evolution) or the empty
\* sequence (dependencies), and with the document's metadata or none.
C6_LoadDefaults ==
    (last.op = "load_map" /\ NamelessAt(file) = {}) =>
        LET es == Entries(file)
            field(c, k, default) == IF HasKey(c, Str(k)) THEN Item(c, Str(k)) ELSE default
        IN /\ last.res = "ok"
           /\ Len(components) = Len(es)
           /\ \A i \in 1..Len(es) :
                ComponentValue(objs, heap, components[i]) =
                    [name |-> Item(es[i], Str("name")),
                     visibility |-> field(es[i], "visibility", Float("0.0")),
                     evolution |-> field(es[i], "evolution", Float("0.0")),
                     dependencies |-> field(es[i], "dependencies", PyList(<<>>)).items]
           /\ metadata = IF file # <<>> /\ HasKey(safe_load(file), Str("metadata"))
                         THEN Item(safe_load(file), Str("metadata")).items
                         ELSE <<>>

C6_Witness ==
    /\ last.op = "load_map"
    /\ last.res = "ok"
    /\ Len(components) = 2
    /\ ~HasKey(Entries(file)[1], Str("visibility"))
    /\ HasKey(Entries(file)[1], Str("evolution"))
    /\ ~HasKey(Entries(file)[2], Str("dependencies"))
    /\ objs[components[1]].visibility = Float("0.0")
    /\ objs[components[1]].evolution = Float("0.9")
    /\ ~HasKey(safe_load(file), Str("metadata"))

\* The first component named name among cs.
FirstNamed(cs, name) ==
    cs[CHOOSE i \in 1..Len(cs) :
            /\ cs[i].name = name
            /\ \A j \in 1..(i - 1) : cs[j].name # name]

\* The last call was link_components(B, A) and left B in A's dependencies
\* and A in B's.
CycleLinked ==
    /\ LinkedOk(last)
    /\ Contains(DepsOf(objs, heap, components, last.args[2]), last.args[1])
    /\ Contains(DepsOf(objs, heap, components, last.args[1]), last.args[2])

\* The graph saves and loads without error, and the loaded graph has B in
\* A's dependencies and A in B's, for the A and B of the last call.
CycleRoundTrips ==
    LET r == load_map(save_map(objs, heap, components, metadata))
    IN /\ r.res = "ok"
       /\ Contains(FirstNamed(r.ret[1].components, last.args[2]).dependencies, last.args[1])
       /\ Contains(FirstNamed(r.ret[1].components, last.args[1]).dependencies, last.args[2])

\* C8: link_components(A, B) then link_components(B, A) on a graph holding A
\* and B both succeed, leave B in A's dependencies and A in B's, and the
\* graph then saves and loads without error with both edges.
C8_CycleAccepted ==
    /\ [][(LinkedOk(last) /\ IsLink(last') /\ last'.args = <<last.args[2], last.args[1]>>)
            => CycleLinked']_vars
    /\ [](CycleLinked => CycleRoundTrips)

C8_Witness ==
    /\ LinkedOk(last)
    /\ last.args[1] # last.args[2]
    /\ Deps(get(last.args[1])) = <<last.args[2]>>
    /\ Deps(get(last.args[2])) = <<last.args[1]>>
    /\ CycleLinked
    /\ CycleRoundTrips
====
